---- MODULE Spec2Model ----
(***************************************************************************)
(* The dataset profiling engine of the data-cleaner application            *)
(* (services/dataService: calculateColumnStats, generateGlobalAnalysis     *)
(* and their numeric helpers), as a state machine over an in-memory table. *)
(*                                                                         *)
(* Cell values are tagged: Num(n), Str(s), Null, Undef.  A row is a        *)
(* JavaScript object: the sequence of its key/value entries in key         *)
(* insertion order (column names are not integer-like, so Object.keys and  *)
(* JSON.stringify enumerate them in insertion order).                      *)
(*                                                                         *)
(* Numbers are integers.  Quotients (mean, median, variance) are exact     *)
(* reduced fractions [num, den]; the standard deviation is kept as the     *)
(* variance it is the square root of.  Double rounding is a function of    *)
(* the exact value, so equal fractions stand for equal doubles.            *)
(***************************************************************************)
EXTENDS Integers, Sequences, FiniteSets, TLC

VARIABLES
    data,          \* DataRow[]: the table's rows
    columns,       \* string[]: the table's column names
    lenientDates,  \* runtime: does the Date parser accept bare digit strings
    report,        \* what generateGlobalAnalysis last returned for this table, or None
    firstReport,   \* what it returned the first time for this table, or None
    repeated,      \* has it been invoked more than once for this table
    colStats,      \* what calculateColumnStats last returned for this table, or None
    utility,       \* what the stats utilities returned for this table's numbers, or None
    csvText,       \* the characters of the file chosen for import
    selectedColumn, \* string | null: the column the details panel is about
    isDetailsOpen, \* is the details panel open
    panel,         \* the DetailsPanel instance: its state and its pending requests
    bar            \* the CustomizeBar: prompt, isProcessing, requests in flight

vars == <<data, columns, lenientDates, report, firstReport, repeated, colStats, utility,
          csvText, selectedColumn, isDetailsOpen, panel, bar>>

\* the derived results kept for the current table
resultVars == <<report, firstReport, repeated, colStats, utility>>

\* the state of the App and its components outside the table
uiVars == <<csvText, selectedColumn, isDetailsOpen, panel, bar>>

\* ------------------------------------------------------------------ bounds

MaxRows == 3
MaxColumnRows == 6
MaxValues == 4
MaxBodyLen == 4
MaxRequests == 2
MaxInsightRequests == 2

\* ------------------------------------------------------------- cell values

Num(n) == [t |-> "number", n |-> n, s |-> ""]
Str(s) == [t |-> "string", n |-> 0, s |-> s]
Null == [t |-> "null", n |-> 0, s |-> ""]
Undef == [t |-> "undefined", n |-> 0, s |-> ""]

None == [none |-> TRUE]

\* ------------------------------------------------------- sequence helpers

Range(seq) == {seq[i] : i \in 1..Len(seq)}

\* ------------------------------------------------------------------- rows

Entry(k, v) == [k |-> k, v |-> v]

HasKey(row, col) == \E i \in 1..Len(row) : row[i].k = col

\* row[col]: the value under the key, undefined when the row has no such key
Get(row, col) ==
    IF HasKey(row, col)
    THEN row[CHOOSE i \in 1..Len(row) : row[i].k = col].v
    ELSE Undef

\* { ...row, [col]: v }: an existing key keeps its place, a new key goes last
SetKey(row, col, v) ==
    IF HasKey(row, col)
    THEN [i \in 1..Len(row) |-> IF row[i].k = col THEN Entry(col, v) ELSE row[i]]
    ELSE Append(row, Entry(col, v))

Keys(row) == {row[i].k : i \in 1..Len(row)}

\* ------------------------------------------------------ exact arithmetic

RECURSIVE GCD(_, _)
GCD(a, b) == IF b = 0 THEN a ELSE GCD(b, a % b)

Abs(x) == IF x < 0 THEN -x ELSE x

\* the quotient n / d (d > 0) as a reduced fraction
Frac(n, d) ==
    LET g == GCD(Abs(n), d)
    IN  [num |-> n \div g, den |-> d \div g]

RECURSIVE Sum(_)
Sum(values) == IF values = <<>> THEN 0 ELSE Head(values) + Sum(Tail(values))

RECURSIVE InsertAsc(_, _)
InsertAsc(x, sorted) ==
    IF sorted = <<>> THEN <<x>>
    ELSE IF x <= Head(sorted) THEN <<x>> \o sorted
         ELSE <<Head(sorted)>> \o InsertAsc(x, Tail(sorted))

\* [...values].sort((a, b) => a - b): an ascending sorted copy
RECURSIVE SortAsc(_)
SortAsc(values) ==
    IF values = <<>> THEN <<>>
    ELSE InsertAsc(Head(values), SortAsc(Tail(values)))

\* Math.min(...values) and Math.max(...values) of a non-empty list
MathMin(values) == CHOOSE m \in Range(values) : \A v \in Range(values) : m <= v
MathMax(values) == CHOOSE m \in Range(values) : \A v \in Range(values) : v <= m

\* ------------------------------------------------------- stats utilities

\* a median read off the list as given, without the sorted copy
getMedianUnsorted(values) ==
    IF Len(values) = 0 THEN Frac(0, 1)
    ELSE LET mid == Len(values) \div 2
         IN  IF Len(values) % 2 # 0
             THEN Frac(values[mid + 1], 1)
             ELSE Frac(values[mid] + values[mid + 1], 2)

getMedian(values) ==
    IF Len(values) = 0 THEN Frac(0, 1)
    ELSE LET sorted == SortAsc(values)
             mid == Len(sorted) \div 2        \* 0-based index
         IN  IF Len(sorted) % 2 # 0
             THEN Frac(sorted[mid + 1], 1)
             ELSE Frac(sorted[mid] + sorted[mid + 1], 2)

\* the distinct values of a list, each at its first occurrence
RECURSIVE FirstOccurrences(_)
FirstOccurrences(values) ==
    IF values = <<>> THEN <<>>
    ELSE LET init == FirstOccurrences(SubSeq(values, 1, Len(values) - 1))
             last == values[Len(values)]
         IN  IF last \in Range(init) THEN init ELSE Append(init, last)

IsArrayIndexKey(v) == v >= 0
IsOtherKey(v) == v < 0

\* Object.keys(counts) for keys String(v): integer-like keys (the
\* non-negative integers) come first in ascending numeric order, every
\* other key (a negative number's "-n") follows in insertion order
ObjectKeys(values) ==
    LET first == FirstOccurrences(values)
    IN  SortAsc(SelectSeq(first, IsArrayIndexKey)) \o SelectSeq(first, IsOtherKey)

Occurrences(values, v) == Cardinality({i \in 1..Len(values) : values[i] = v})

ModeLimit == 3

\* a mode list without the slice(0, 3)
getModeUnlimited(values) ==
    IF Len(values) = 0 THEN <<>>
    ELSE LET AtMax(k) == \A v \in Range(values) : Occurrences(values, v) <= Occurrences(values, k)
         IN  SelectSeq(ObjectKeys(values), AtMax)

\* the keys are String(v) of numbers, which Number(k) reads back unchanged
getMode(values) ==
    IF Len(values) = 0 THEN <<>>
    ELSE LET maxFreq == CHOOSE f \in 1..Len(values) :
                            /\ \E v \in Range(values) : Occurrences(values, v) = f
                            /\ \A v \in Range(values) : Occurrences(values, v) <= f
             AtMax(k) == Occurrences(values, k) = maxFreq
             modes == SelectSeq(ObjectKeys(values), AtMax)
         IN  SubSeq(modes, 1, IF Len(modes) < ModeLimit THEN Len(modes) ELSE ModeLimit)

RECURSIVE SumSquareDiffs(_, _)
SumSquareDiffs(values, mean) ==
    IF values = <<>> THEN 0
    ELSE (Head(values) * mean.den - mean.num) * (Head(values) * mean.den - mean.num)
         + SumSquareDiffs(Tail(values), mean)

\* Math.sqrt(avgSquareDiff), kept as the fraction under the root
getStandardDeviation(values, mean) ==
    IF Len(values) = 0 THEN [sqrtOf |-> Frac(0, 1)]
    ELSE [sqrtOf |-> Frac(SumSquareDiffs(values, mean),
                          mean.den * mean.den * Len(values))]

\* a count that takes the values on a bound for outliers too
getOutlierCountInclusive(values, q1, q3) ==
    LET iqr == q3 - q1
    IN  Cardinality({i \in 1..Len(values) :
                        \/ 2 * values[i] <= 2 * q1 - 3 * iqr
                        \/ 2 * values[i] >= 2 * q3 + 3 * iqr})

\* v < q1 - 1.5 * iqr or v > q3 + 1.5 * iqr, both sides doubled
getOutlierCount(values, q1, q3) ==
    LET iqr == q3 - q1
        lowerBound2 == 2 * q1 - 3 * iqr
        upperBound2 == 2 * q3 + 3 * iqr
    IN  Cardinality({i \in 1..Len(values) :
                        2 * values[i] < lowerBound2 \/ 2 * values[i] > upperBound2})

\* sorted[Math.floor(sorted.length * p)] || 0, with idx the floored index
QuartileAt(sorted, idx) ==
    IF idx + 1 \in 1..Len(sorted) /\ sorted[idx + 1] # 0 THEN sorted[idx + 1] ELSE 0

\* a lower quartile index taken over the last index instead of the length
Q1IndexOfLast(n) == (n - 1) \div 4

\* Math.floor(sorted.length * 0.25) and Math.floor(sorted.length * 0.75)
Q1Index(n) == n \div 4

\* an upper quartile index taken over the last index instead of the length
Q3IndexOfLast(n) == (3 * (n - 1)) \div 4

Q3Index(n) == (3 * n) \div 4

\* -------------------------------------------------- the JavaScript runtime

IsNumber(v) == v.t = "number"       \* typeof v === 'number'
IsString(v) == v.t = "string"       \* typeof v === 'string'

\* String(v)
StringOf(v) ==
    CASE v.t = "number" -> ToString(v.n)
      [] v.t = "string" -> v.s
      [] v.t = "null" -> "null"
      [] OTHER -> "undefined"

\* JSON.stringify of a cell value (the texts of the model hold no character
\* that JSON escapes)
JSONValue(v) ==
    CASE v.t = "number" -> ToString(v.n)
      [] v.t = "string" -> "\"" \o v.s \o "\""
      [] OTHER -> "null"

RECURSIVE JSONMembers(_)
JSONMembers(entries) ==
    IF entries = <<>> THEN ""
    ELSE "\"" \o Head(entries).k \o "\":" \o JSONValue(Head(entries).v)
         \o (IF Len(entries) > 1 THEN "," ELSE "") \o JSONMembers(Tail(entries))

IsSerialized(e) == e.v.t # "undefined"

\* JSON.stringify(row): the members in key insertion order; a member whose
\* value is undefined is left out
JSONStringify(row) == "{" \o JSONMembers(SelectSeq(row, IsSerialized)) \o "}"

Invalid == [valid |-> FALSE, day |-> 0]
ValidDate(day) == [valid |-> TRUE, day |-> day]

\* Date.parse(s) / new Date(s) over the texts of the model, as the day
\* number since the epoch; ISO dates parse on every runtime, bare digit
\* strings only on a runtime with the legacy fallback; the runtime's time
\* zone is taken to be UTC
DateParse(s) ==
    CASE s = "2023-01-01" -> ValidDate(19358)
      [] s = "2023-02-01" -> ValidDate(19389)
      [] s = "1" /\ lenientDates -> ValidDate(11323)
      [] s = "2" /\ lenientDates -> ValidDate(11354)
      [] s = "5" /\ lenientDates -> ValidDate(11443)
      [] OTHER -> Invalid

\* d.toISOString().split('T')[0]
ISODate(day) ==
    CASE day = 19358 -> "2023-01-01"
      [] day = 19389 -> "2023-02-01"
      [] day = 11323 -> "2001-01-01"
      [] day = 11354 -> "2001-02-01"
      [] day = 11443 -> "2001-05-01"

\* v.includes('-') || v.includes('/') over the texts of the model
IncludesDashOrSlash(s) == s \in {"2023-01-01", "2023-02-01", "n/a"}

\* the texts of the model in the order of the default Array.prototype.sort
\* (UTF-16 code units)
LexOrder == <<"1", "2", "2023-01-01", "2023-02-01", "5", "abc", "n/a">>

LexRank(s) == CHOOSE i \in 1..Len(LexOrder) : LexOrder[i] = s

RECURSIVE InsertLex(_, _)
InsertLex(x, sorted) ==
    IF sorted = <<>> THEN <<x>>
    ELSE IF LexRank(x) <= LexRank(Head(sorted)) THEN <<x>> \o sorted
         ELSE <<Head(sorted)>> \o InsertLex(x, Tail(sorted))

\* stringValues.sort()
RECURSIVE SortLex(_)
SortLex(strings) ==
    IF strings = <<>> THEN <<>>
    ELSE InsertLex(Head(strings), SortLex(Tail(strings)))

RECURSIVE InsertDay(_, _)
InsertDay(d, sorted) ==
    IF sorted = <<>> THEN <<d>>
    ELSE IF d.day <= Head(sorted).day THEN <<d>> \o sorted
         ELSE <<Head(sorted)>> \o InsertDay(d, Tail(sorted))

\* dates.sort((a, b) => a.getTime() - b.getTime())
RECURSIVE SortDates(_)
SortDates(dates) ==
    IF dates = <<>> THEN <<>>
    ELSE InsertDay(Head(dates), SortDates(Tail(dates)))

\* ----------------------------------------------------- profiling engine

\* a missing-value test that forgets the empty string
IsMissingWithoutEmpty(v) == v.t = "null" \/ v.t = "undefined"

\* v !== null && v !== '' && v !== undefined, negated
IsMissing(v) == v.t = "null" \/ v.t = "undefined" \/ (v.t = "string" /\ v.s = "")

NotMissing(v) == ~IsMissing(v)

\* data.map(row => row[column])
ColumnValues(rows, col) == [i \in 1..Len(rows) |-> Get(rows[i], col)]

\* the numbers of a list of cell values, in order
NumbersOf(cells) ==
    LET nums == SelectSeq(cells, IsNumber)
    IN  [i \in 1..Len(nums) |-> nums[i].n]

\* typeof v === 'string' && !isNaN(Date.parse(v)) && (v.includes('-') || v.includes('/'))
LooksLikeDate(v) == IsString(v) /\ DateParse(v.s).valid /\ IncludesDashOrSlash(v.s)

\* a threshold test that lets exactly 80% through
DateThresholdInclusive(dateCount, nonNullCount) == 5 * dateCount >= 4 * nonNullCount

\* dateCount > nonNull.length * 0.8, in integers (the double product
\* n * 0.8 is never below the exact 0.8 n, and dateCount is an integer)
DateThresholdMet(dateCount, nonNullCount) == 5 * dateCount > 4 * nonNullCount

DetectType(numCount, strCount, dateCount, nonNullCount) ==
    IF numCount > 0 /\ strCount = 0 THEN "Numeric"
    ELSE IF DateThresholdMet(dateCount, nonNullCount) THEN "Date"
    ELSE IF numCount > 0 /\ strCount > 0 THEN "Mixed"
    ELSE "Categorical"

\* the issues pushed by the type detection
TypeIssues(type, dateCount, nonNullCount) ==
    IF type = "Date"
    THEN (IF dateCount < nonNullCount THEN <<"Invalid Date Formats Detected">> ELSE <<>>)
    ELSE IF type = "Mixed" THEN <<"Mixed Data Types (Numbers & Text)">>
    ELSE <<>>

\* the numeric values the statistics of a column are computed over
NumericSubset(nonNull) == NumbersOf(nonNull)

\* numeric statistics for Numeric columns only
HasNumericStatsNumericOnly(type, numCount) == type = "Numeric"

\* type === 'Numeric' || (type === 'Mixed' && numCount > 0)
HasNumericStats(type, numCount) == type = "Numeric" \/ (type = "Mixed" /\ numCount > 0)

\* the quartiles generateGlobalAnalysis hands to getOutlierCount
OutlierQuartiles(numericValues) ==
    LET sorted == SortAsc(numericValues)
    IN  [q1 |-> QuartileAt(sorted, Q1Index(Len(sorted))),
         q3 |-> QuartileAt(sorted, Q3Index(Len(sorted)))]

\* the statistics block of generateGlobalAnalysis over a non-empty numeric list
NumericStatsOf(numericValues) ==
    LET sum == Sum(numericValues)
        mean == Frac(sum, Len(numericValues))
        q1 == OutlierQuartiles(numericValues).q1
        q3 == OutlierQuartiles(numericValues).q3
    IN  [mean |-> mean,
         median |-> getMedian(numericValues),
         mode |-> getMode(numericValues),
         min |-> MathMin(numericValues),
         max |-> MathMax(numericValues),
         stdDev |-> getStandardDeviation(numericValues, mean),
         outliers |-> getOutlierCount(numericValues, q1, q3)]

OutlierIssues(outliers) ==
    IF outliers > 0
    THEN <<"Potential Outliers (" \o ToString(outliers) \o ")">>
    ELSE <<>>

IsValidDate(d) == d.valid

\* the converted dates left in row order
DateValuesUnsorted(nonNull) ==
    SelectSeq([i \in 1..Len(nonNull) |-> DateParse(StringOf(nonNull[i]))], IsValidDate)

\* nonNull.map(v => new Date(String(v))).filter(d => !isNaN(d.getTime())).sort(...)
DateValues(nonNull) ==
    SortDates(SelectSeq([i \in 1..Len(nonNull) |-> DateParse(StringOf(nonNull[i]))],
                        IsValidDate))

DateStatsOf(nonNull) ==
    LET dateValues == DateValues(nonNull)
    IN  IF Len(dateValues) > 0
        THEN [min |-> ISODate(dateValues[1].day),
              max |-> ISODate(dateValues[Len(dateValues)].day),
              invalidCount |-> Len(nonNull) - Len(dateValues)]
        ELSE None

\* a count of the distinct values left after the missing ones are filtered out
UniqueCountOfPresent(values) == Cardinality(Range(SelectSeq(values, NotMissing)))

\* new Set(values).size: SameValueZero keeps null, undefined and '' apart,
\* and a number apart from the text of its digits
UniqueCount(values) == Cardinality(Range(values))

\* a type detection that looks at every cell, missing ones included
NonNullUnfiltered(values) == values

\* values.filter(v => v !== null && v !== '' && v !== undefined)
NonNull(values) == SelectSeq(values, NotMissing)

\* the type detection heuristic of one column
ColumnType(rows, col) ==
    LET nonNull == NonNull(ColumnValues(rows, col))
    IN  DetectType(Len(SelectSeq(nonNull, IsNumber)),
                   Len(SelectSeq(nonNull, IsString)),
                   Len(SelectSeq(nonNull, LooksLikeDate)),
                   Len(nonNull))

\* the body of columns.forEach(col => ...): one column's ColumnAnalysis
AnalyzeColumn(rows, col) ==
    LET values == ColumnValues(rows, col)
        nonNull == NonNull(values)
        numCount == Len(SelectSeq(nonNull, IsNumber))
        strCount == Len(SelectSeq(nonNull, IsString))
        dateCount == Len(SelectSeq(nonNull, LooksLikeDate))
        type == ColumnType(rows, col)
        hasNumeric == HasNumericStats(type, numCount) /\ Len(NumericSubset(nonNull)) > 0
        numericStats == IF hasNumeric THEN NumericStatsOf(NumericSubset(nonNull)) ELSE None
    IN  [name |-> col,
         missing |-> Len(values) - Len(nonNull),
         unique |-> UniqueCount(values),
         type |-> type,
         issues |-> TypeIssues(type, dateCount, Len(nonNull))
                    \o (IF hasNumeric THEN OutlierIssues(numericStats.outliers) ELSE <<>>),
         numericStats |-> numericStats,
         dateStats |-> IF type = "Date" THEN DateStatsOf(nonNull) ELSE None]

\* the key a row is remembered under in seenRows
RowKey(row) == JSONStringify(row)

\* the duplicate scan: seenRows starts empty; a row whose key was seen counts
RECURSIVE SeenRows(_)
SeenRows(rows) ==
    IF rows = <<>> THEN {}
    ELSE SeenRows(SubSeq(rows, 1, Len(rows) - 1)) \cup {RowKey(rows[Len(rows)])}

\* a scan that compares each row with the row just before it only
CountAdjacentDuplicates(rows) ==
    Cardinality({i \in 2..Len(rows) : RowKey(rows[i]) = RowKey(rows[i - 1])})

\* a scan whose seenRows outlives the invocation: on a later invocation for
\* the same table every row has been seen
CountDuplicatesLeaky(rows) ==
    IF report = None
    THEN Cardinality({i \in 1..Len(rows) :
                        RowKey(rows[i]) \in SeenRows(SubSeq(rows, 1, i - 1))})
    ELSE Len(rows)

CountDuplicates(rows) ==
    Cardinality({i \in 1..Len(rows) : RowKey(rows[i]) \in SeenRows(SubSeq(rows, 1, i - 1))})

generateGlobalAnalysis(rows, cols) ==
    [totalRows |-> Len(rows),
     totalCols |-> Len(cols),
     duplicateRows |-> CountDuplicates(rows),
     columns |-> [c \in Range(cols) |-> AnalyzeColumn(rows, c)]]

\* a numeric test without the length guard: every() holds of an empty list
IsNumericColumnUnguarded(nonNullValues) ==
    \A i \in 1..Len(nonNullValues) : IsNumber(nonNullValues[i])

\* a numeric test satisfied by a single number among the values
IsNumericColumnSome(nonNullValues) ==
    \E i \in 1..Len(nonNullValues) : IsNumber(nonNullValues[i])

\* nonNullValues.length > 0 && nonNullValues.every(v => typeof v === 'number')
IsNumericColumn(nonNullValues) ==
    Len(nonNullValues) > 0 /\ \A i \in 1..Len(nonNullValues) : IsNumber(nonNullValues[i])

calculateColumnStats(rows, column) ==
    LET values == ColumnValues(rows, column)
        nonNullValues == SelectSeq(values, NotMissing)
        count == Len(values)
        missing == count - Len(nonNullValues)
        unique == UniqueCount(values)
    IN  IF IsNumericColumn(nonNullValues)
        THEN LET numericValues == NumbersOf(nonNullValues)
                 sum == Sum(numericValues)
                 mean == IF Len(numericValues) > 0
                         THEN Frac(sum, Len(numericValues)) ELSE Frac(0, 1)
                 median == getMedian(numericValues)
                 sorted == SortAsc(numericValues)
             IN  [type |-> "Numeric",
                  count |-> count,
                  unique |-> unique,
                  missing |-> missing,
                  mean |-> mean,
                  median |-> median,
                  min |-> IF Len(numericValues) > 0 THEN MathMin(numericValues) ELSE 0,
                  max |-> IF Len(numericValues) > 0 THEN MathMax(numericValues) ELSE 0,
                  stdDev |-> getStandardDeviation(numericValues, mean),
                  quartiles |-> [q1 |-> QuartileAt(sorted, Q1Index(Len(sorted))),
                                 q2 |-> median,
                                 q3 |-> QuartileAt(sorted, Q3Index(Len(sorted)))]]
        ELSE LET stringValues == SortLex([i \in 1..Len(nonNullValues) |->
                                              StringOf(nonNullValues[i])])
             IN  [type |-> "Categorical",
                  count |-> count,
                  unique |-> unique,
                  missing |-> missing,
                  min |-> IF Len(stringValues) > 0 THEN Str(stringValues[1]) ELSE Undef,
                  max |-> IF Len(stringValues) > 0
                          THEN Str(stringValues[Len(stringValues)]) ELSE Undef]

\* ------------------------------------------------------------ input sets

ColumnNames == {"a", "b"}

\* rows over the keys a and b: a key absent, holding undefined or null, 5
\* as a number and as a text, equal members in either insertion order
RowUniverse ==
    { <<>>,
      <<Entry("a", Undef)>>,
      <<Entry("a", Null)>>,
      <<Entry("a", Num(5))>>,
      <<Entry("a", Str("5"))>>,
      <<Entry("a", Num(1)), Entry("b", Num(2))>>,
      <<Entry("a", Num(5)), Entry("b", Num(2))>>,
      <<Entry("b", Num(2)), Entry("a", Num(5))>>,
      <<Entry("a", Str(""))>> }

\* single-column rows: a number, an ISO date, a text that is no date, a
\* missing value
ColumnCells == {Num(1), Str("2023-01-01"), Str("n/a"), Str("")}

ColumnRowUniverse == {<<Entry("a", x)>> : x \in ColumnCells}

\* what a grid cell's input element can deliver: always a text
EditTexts == {""}

\* the file imported while the App is in use: one column, one row
AppTexts == {<<"a", "\n", "1">>}

\* what the prompt field can be set to
PromptTexts == {"", "sort"}

\* the code the model answers a prompt with: a copy of the rows
\* (data.map(r => ({...r}))), a filter that keeps no row, the rows without
\* the column a
TransformationCodes == {"copy", "filterOut", "dropColumn"}

\* the files chosen for import: the header line a,b,c and up to MaxBodyLen
\* characters of data lines
HeaderLine == <<"a", ",", "b", ",", "c">>
BodyChars == {"1", "x", ",", " ", "\"", "\n"}
CsvTexts ==
    {HeaderLine \o <<"\n">> \o body :
        body \in UNION {[1..n -> BodyChars] : n \in 0..MaxBodyLen}}

\* the cells of a numeric column: negative numbers, zero, repeats, and a
\* missing value
NumericCells == {Num(-1), Num(0), Num(1), Num(2), Null}

\* the columns the documented scenarios name
OutlierExample == <<1, 2, 3, 4, 5, 100>>
ModeExample == <<1, 1, 2, 2, 3>>

NumericColumn(cells) == [i \in 1..Len(cells) |-> <<Entry("a", cells[i])>>]

\* every single-column table of at most MaxValues numeric cells, and the
\* two example columns
NumericTables ==
    {NumericColumn(cells) : cells \in UNION {[1..n -> NumericCells] : n \in 0..MaxValues}}
    \cup {NumericColumn([i \in 1..Len(e) |-> Num(e[i])]) : e \in {OutlierExample, ModeExample}}

\* --------------------------------------------------------------- actions

\* ------------------------------------------------------------- CSV import

\* Texts are sequences of one-character strings.
Quote == "\""
Comma == ","
Newline == "\n"

\* \s, and what trim() removes
IsSpace(ch) == ch \in {" ", Newline}

RECURSIVE TrimStart(_)
TrimStart(chars) ==
    IF chars # <<>> /\ IsSpace(Head(chars)) THEN TrimStart(Tail(chars)) ELSE chars

RECURSIVE TrimEnd(_)
TrimEnd(chars) ==
    IF chars # <<>> /\ IsSpace(chars[Len(chars)])
    THEN TrimEnd(SubSeq(chars, 1, Len(chars) - 1))
    ELSE chars

\* s.trim()
Trim(chars) == TrimEnd(TrimStart(chars))

\* s.split(sep): always at least one piece
RECURSIVE Split(_, _)
Split(chars, sep) ==
    IF \E i \in 1..Len(chars) : chars[i] = sep
    THEN LET i == CHOOSE k \in 1..Len(chars) :
                      chars[k] = sep /\ \A j \in 1..(k - 1) : chars[j] # sep
         IN  <<SubSeq(chars, 1, i - 1)>> \o Split(SubSeq(chars, i + 1, Len(chars)), sep)
    ELSE <<chars>>

\* s.replace(/^"|"$/g, ''): a quote at the start and a quote at the end go
StripQuotes(chars) ==
    LET n == Len(chars)
        from == IF n >= 1 /\ chars[1] = Quote THEN 2 ELSE 1
        to == IF n >= 2 /\ chars[n] = Quote THEN n - 1 ELSE n
    IN  SubSeq(chars, from, to)

\* the characters joined into one text
RECURSIVE Text(_)
Text(chars) == IF chars = <<>> THEN "" ELSE Head(chars) \o Text(Tail(chars))

\* the lookahead (?=\s*,|\s*$) at position p of a line
RECURSIVE Lookahead(_, _)
Lookahead(line, p) ==
    IF p > Len(line) THEN TRUE
    ELSE IF IsSpace(line[p]) THEN Lookahead(line, p + 1)
    ELSE line[p] = Comma

\* [^",\s]
IsPlain(ch) == ch # Quote /\ ch # Comma /\ ~IsSpace(ch)

\* the last position of the run of plain characters that starts at i
RECURSIVE RunEnd(_, _)
RunEnd(line, i) ==
    IF i < Len(line) /\ IsPlain(line[i + 1]) THEN RunEnd(line, i + 1) ELSE i

\* rowStr.match(/(".*?"|[^",\s]+)(?=\s*,|\s*$)/g) from position i on: at a
\* quote the shortest stretch up to a later quote that the lookahead
\* accepts; at a plain character the whole run of plain characters, if the
\* lookahead accepts it (no shorter run is followed by a comma, a space or
\* the end); the search goes on after a match, or one position further
RECURSIVE Matches(_, _)
Matches(line, i) ==
    IF i > Len(line) THEN <<>>
    ELSE IF line[i] = Quote
    THEN LET closing == {j \in (i + 1)..Len(line) :
                            line[j] = Quote /\ Lookahead(line, j + 1)}
         IN  IF closing # {}
             THEN LET j == CHOOSE k \in closing : \A m \in closing : k <= m
                  IN  <<SubSeq(line, i, j)>> \o Matches(line, j + 1)
             ELSE Matches(line, i + 1)
    ELSE IF IsPlain(line[i])
    THEN LET k == RunEnd(line, i)
         IN  IF Lookahead(line, k + 1)
             THEN <<SubSeq(line, i, k)>> \o Matches(line, k + 1)
             ELSE Matches(line, k + 1)
    ELSE Matches(line, i + 1)

\* the digits of the model's texts
DigitValue(ch) == IF ch = "1" THEN 1 ELSE 0
IsDigit(ch) == ch \in {"0", "1"}

RECURSIVE Decimal(_)
Decimal(digits) ==
    IF digits = <<>> THEN 0
    ELSE 10 * Decimal(SubSeq(digits, 1, Len(digits) - 1)) + DigitValue(digits[Len(digits)])

\* Number(val) over the model's texts: white space around the text is
\* ignored, the empty text is 0, a run of digits its value, all else NaN
NumberOfText(val) ==
    LET t == Trim(val)
    IN  IF \A i \in 1..Len(t) : IsDigit(t[i])
        THEN [nan |-> FALSE, n |-> Decimal(t)]
        ELSE [nan |-> TRUE, n |-> 0]

\* the cell stored for a field: val !== '' && !isNaN(Number(val))
CellOfField(val) ==
    IF val # <<>> /\ ~NumberOfText(val).nan THEN Num(NumberOfText(val).n) ELSE Str(Text(val))

\* values[index] ? values[index].trim().replace(/^"|"$/g, '') : ''
FieldAt(values, index) ==
    IF index <= Len(values) /\ values[index] # <<>>
    THEN StripQuotes(Trim(values[index]))
    ELSE <<>>

\* headers.forEach((header, index) => row[header] = ...)
RECURSIVE RowOfFields(_, _, _)
RowOfFields(headers, values, n) ==
    IF n = 0 THEN <<>>
    ELSE SetKey(RowOfFields(headers, values, n - 1), headers[n],
                CellOfField(FieldAt(values, n)))

\* the body of the loop over the lines after the header, lines i..end
RECURSIVE RowsOfLines(_, _, _)
RowsOfLines(lines, headers, i) ==
    IF i > Len(lines) THEN <<>>
    ELSE LET rowStr == Trim(lines[i])
             matches == Matches(rowStr, 1)
             values == IF Len(matches) > 0 THEN matches ELSE Split(rowStr, Comma)
         IN  IF rowStr = <<>> THEN RowsOfLines(lines, headers, i + 1)
             ELSE <<RowOfFields(headers, values, Len(headers))>>
                  \o RowsOfLines(lines, headers, i + 1)

parseCSV(text) ==
    LET lines == Split(Trim(text), Newline)
        headerFields == Split(lines[1], Comma)
        headers == [i \in 1..Len(headerFields) |-> Text(StripQuotes(Trim(headerFields[i])))]
    IN  [data |-> RowsOfLines(lines, headers, 2), columns |-> headers]

\* a DetailsPanel that is not rendered
Unmounted == [mounted |-> FALSE]

\* CustomizeBar's useState('') and useState(false), no request issued
IdleBar == [prompt |-> "", isProcessing |-> FALSE, requests |-> <<>>]

\* useState(null), useState(false); no file chosen
InitUI ==
    /\ csvText = <<>>
    /\ selectedColumn = None
    /\ isDetailsOpen = FALSE
    /\ panel = Unmounted
    /\ bar = IdleBar

\* the App's initial state (useState([]) twice) on one of the given runtimes
Init(runtimes) ==
    /\ data = <<>>
    /\ columns = <<>>
    /\ lenientDates \in runtimes
    /\ report = None
    /\ firstReport = None
    /\ repeated = FALSE
    /\ colStats = None
    /\ utility = None
    /\ InitUI

\* JSON.stringify of an array of column names
RECURSIVE JSONElements(_)
JSONElements(names) ==
    IF names = <<>> THEN ""
    ELSE "\"" \o Head(names) \o "\"" \o (IF Len(names) > 1 THEN "," ELSE "")
         \o JSONElements(Tail(names))

JSONStringArray(names) == "[" \o JSONElements(names) \o "]"

\* Object.keys(row)
ObjectKeysOf(row) == [i \in 1..Len(row) |-> row[i].k]

\* App.handleDataUpdate: the table is replaced; the column list follows the
\* keys of the first row when it differs
handleDataUpdateWith(newData, closureColumns) ==
    /\ data' = newData
    /\ columns' = IF Len(newData) > 0
                     /\ JSONStringArray(ObjectKeysOf(newData[1]))
                          # JSONStringArray(closureColumns)
                  THEN ObjectKeysOf(newData[1])
                  ELSE columns
    /\ report' = None
    /\ firstReport' = None
    /\ repeated' = FALSE
    /\ colStats' = None
    /\ utility' = None
    /\ UNCHANGED <<lenientDates, csvText, selectedColumn, isDetailsOpen>>

\* the callback as created on the latest render
handleDataUpdate(newData) == handleDataUpdateWith(newData, columns)

\* Tables are built a row at a time from the input sets (the sample table
\* the App loads on mount is too large to enumerate).
\* a transformation that adds one row
AppendRow(universe, maxRows) ==
    \E r \in universe :
        /\ Len(data) < maxRows
        /\ handleDataUpdate(Append(data, r))
        /\ UNCHANGED <<panel, bar>>

\* a transformation that removes every row
ClearRows ==
    /\ Len(data) > 0
    /\ handleDataUpdate(<<>>)
    /\ UNCHANGED <<panel, bar>>

\* App.handleCellEdit, called by the grid for a cell of a listed column
handleCellEdit(rowIndex, colName, value) ==
    /\ data' = [data EXCEPT ![rowIndex] = SetKey(data[rowIndex], colName, value)]
    /\ report' = None
    /\ firstReport' = None
    /\ repeated' = FALSE
    /\ colStats' = None
    /\ utility' = None
    /\ UNCHANGED <<columns, lenientDates, csvText, selectedColumn, isDetailsOpen>>

CellEdit(texts) ==
    \E i \in 1..Len(data), c \in Range(columns), s \in texts :
        /\ handleCellEdit(i, c, Str(s))
        /\ UNCHANGED <<panel, bar>>

\* the rows ordered by their number under col (0 for any other cell)
RECURSIVE SortRowsBy(_, _)
SortRowsBy(rows, col) ==
    IF rows = <<>> THEN <<>>
    ELSE LET rest == SortRowsBy(Tail(rows), col)
             n == Get(Head(rows), col).n
             small(r) == Get(r, col).n < n
             large(r) == Get(r, col).n >= n
         IN  SelectSeq(rest, small) \o <<Head(rows)>> \o SelectSeq(rest, large)

\* an invocation that sorts the rows array itself instead of a copy
GlobalAnalysisCallSortingInPlace(rows, cols) ==
    [result |-> generateGlobalAnalysis(rows, cols),
     data |-> SortRowsBy(rows, "a"),
     columns |-> cols]

\* what an invocation leaves of its arguments, with what it returns
GlobalAnalysisCall(rows, cols) ==
    [result |-> generateGlobalAnalysis(rows, cols), data |-> rows, columns |-> cols]

ColumnStatsCall(rows, column) ==
    [result |-> calculateColumnStats(rows, column), data |-> rows]

\* an invocation of generateGlobalAnalysis on the table (GlobalAnalysisView's
\* useMemo); again == TRUE lets it be invoked again on the unchanged table
GenerateGlobalAnalysis(again) ==
    LET call == GlobalAnalysisCall(data, columns)
    IN  /\ report = None \/ (again /\ ~repeated)
        /\ report' = call.result
        /\ firstReport' = IF firstReport = None THEN call.result ELSE firstReport
        /\ repeated' = (report # None)
        /\ data' = call.data
        /\ columns' = call.columns
        /\ UNCHANGED <<lenientDates, colStats, utility, uiVars>>

\* an invocation of calculateColumnStats on the table, for any column name
CalculateColumnStats(names) ==
    \E c \in names :
        LET call == ColumnStatsCall(data, c)
        IN  /\ colStats' = [column |-> c, stats |-> call.result]
            /\ data' = call.data
            /\ UNCHANGED <<columns, lenientDates, report, firstReport, repeated, utility, uiVars>>

\* the stats utilities applied as generateGlobalAnalysis applies them, to
\* the numbers of column a (an empty list included)
ApplyStatsUtilities ==
    LET values == NumericSubset(NonNull(ColumnValues(data, "a")))
        q == OutlierQuartiles(values)
    IN  /\ utility = None
        /\ utility' = [values |-> values,
                       median |-> getMedian(values),
                       mode |-> getMode(values),
                       q1 |-> q.q1,
                       q3 |-> q.q3,
                       outliers |-> getOutlierCount(values, q.q1, q.q3)]
        /\ UNCHANGED <<data, columns, lenientDates, report, firstReport, repeated, colStats,
                       uiVars>>

\* a table as handleFileUpload hands it over: rows and the header's columns
InitNumeric ==
    /\ data \in NumericTables
    /\ columns = <<"a">>
    /\ lenientDates = FALSE
    /\ report = None
    /\ firstReport = None
    /\ repeated = FALSE
    /\ colStats = None
    /\ utility = None
    /\ InitUI

\* reader.onload of App.handleFileUpload for a file of the given text
handleFileUpload(text) ==
    LET parsed == parseCSV(text)
    IN  /\ data' = parsed.data
        /\ columns' = parsed.columns
        /\ selectedColumn' = None
        /\ isDetailsOpen' = FALSE
        /\ panel' = Unmounted
        /\ report' = None
        /\ firstReport' = None
        /\ repeated' = FALSE
        /\ colStats' = None
        /\ utility' = None
        /\ UNCHANGED <<lenientDates, csvText, bar>>

\* the chosen file is read and imported
FileUpload == handleFileUpload(csvText)

\* the App with a file chosen for import
InitCSV ==
    /\ data = <<>>
    /\ columns = <<>>
    /\ lenientDates = FALSE
    /\ report = None
    /\ firstReport = None
    /\ repeated = FALSE
    /\ colStats = None
    /\ utility = None
    /\ csvText \in CsvTexts
    /\ selectedColumn = None
    /\ isDetailsOpen = FALSE
    /\ panel = Unmounted
    /\ bar = IdleBar

\* an import while the App is in use
Import(texts) == \E t \in texts : handleFileUpload(t)

\* selectedColumn as a value: null, or a column name
Selected(c) == [column |-> c]

\* a DetailsPanel just mounted (useState(null), useState(''),
\* useState(false)), whose effect has not run; issued counts the insight
\* requests of this instance, requested is the latest of them
FreshPanel ==
    [mounted |-> TRUE, stats |-> None, insight |-> None, loadingInsight |-> FALSE,
     deps |-> None, issued |-> 0, requested |-> None, pending |-> <<>>]

\* App.handleColumnClick; the panel is rendered while isDetailsOpen &&
\* selectedColumn, and keeps its state while it stays rendered
handleColumnClick(colName) ==
    /\ IF selectedColumn = Selected(colName) /\ isDetailsOpen
       THEN /\ isDetailsOpen' = FALSE
            /\ selectedColumn' = None
            /\ panel' = Unmounted
       ELSE /\ selectedColumn' = Selected(colName)
            /\ isDetailsOpen' = TRUE
            /\ panel' = IF panel.mounted THEN panel ELSE FreshPanel
    /\ UNCHANGED <<data, columns, lenientDates, resultVars, csvText, bar>>

\* a click on a header of the grid
ColumnClick == \E c \in Range(columns) : handleColumnClick(c)

\* the panel's close button: setIsDetailsOpen(false)
CloseDetails ==
    /\ isDetailsOpen
    /\ isDetailsOpen' = FALSE
    /\ panel' = Unmounted
    /\ UNCHANGED <<data, columns, lenientDates, resultVars, csvText, selectedColumn, bar>>

\* the dependencies [data, column] of the panel's effect
PanelDeps == [data |-> data, column |-> selectedColumn.column]

\* the panel has rendered with a data or a column that differ from those of
\* its effect's last run, and the effect has not run yet
EffectPending == panel.mounted /\ panel.deps # PanelDeps

\* DetailsPanel's useEffect, run after a render in which data or column
\* differ from those of its last run; a panel is followed up to its
\* MaxInsightRequests-th request
PanelEffect ==
    /\ EffectPending
    /\ IF Len(data) > 0 /\ selectedColumn.column # ""
       THEN LET request == [id |-> panel.issued + 1, data |-> data,
                            column |-> selectedColumn.column]
            IN  /\ panel.issued < MaxInsightRequests
                /\ panel' = [panel EXCEPT
                                !.stats = calculateColumnStats(data, selectedColumn.column),
                                !.insight = None,
                                !.loadingInsight = TRUE,
                                !.deps = PanelDeps,
                                !.issued = @ + 1,
                                !.requested = request,
                                !.pending = Append(@, request)]
       ELSE panel' = [panel EXCEPT !.deps = PanelDeps]
    /\ UNCHANGED <<data, columns, lenientDates, resultVars, csvText, selectedColumn,
                   isDetailsOpen, bar>>

\* a sequence without its i-th element
Without(seq, i) == SubSeq(seq, 1, i - 1) \o SubSeq(seq, i + 1, Len(seq))

\* getColumnInsights resolves for one of the panel's pending requests (with
\* the model's text or its fallback text): setInsight, setLoadingInsight
InsightResponse ==
    /\ panel.mounted
    /\ \E i \in 1..Len(panel.pending) :
           panel' = [panel EXCEPT !.insight = panel.pending[i],
                                  !.loadingInsight = FALSE,
                                  !.pending = Without(@, i)]
    /\ UNCHANGED <<data, columns, lenientDates, resultVars, csvText, selectedColumn,
                   isDetailsOpen, bar>>

\* the prompt field's onChange
SetPrompt(texts) ==
    \E t \in texts :
        /\ t # bar.prompt
        /\ bar' = [bar EXCEPT !.prompt = t]
        /\ UNCHANGED <<data, columns, lenientDates, resultVars, csvText, selectedColumn,
                       isDetailsOpen, panel>>

\* CustomizeBar.handleExecute up to its await: the request holds the data
\* and the onUpdateData callback (with its columns) of the render it was
\* started in; the early returns leave the state as it is
handleExecute ==
    /\ bar.prompt # ""
    /\ Len(data) > 0
    /\ Len(bar.requests) < MaxRequests
    /\ bar' = [bar EXCEPT !.isProcessing = TRUE,
                          !.requests = Append(@, [data |-> data, columns |-> columns])]
    /\ UNCHANGED <<data, columns, lenientDates, resultVars, csvText, selectedColumn,
                   isDetailsOpen, panel>>

\* the send button, disabled={isProcessing || !prompt.trim()}
ClickSend ==
    /\ ~bar.isProcessing
    /\ bar.prompt # ""
    /\ handleExecute

\* CustomizeBar.handleKeyDown on Enter in the prompt field
PressEnter == handleExecute

\* transformFunction(data) for the code the model returned
Transform(code, rows) ==
    LET NotA(entry) == entry.k # "a"
    IN  CASE code = "copy" -> rows
          [] code = "filterOut" -> <<>>
          [] code = "dropColumn" -> [i \in 1..Len(rows) |-> SelectSeq(rows[i], NotA)]

\* handleExecute after its await, for the i-th request in flight and the
\* code it was answered with: the transformation of the data the request
\* holds is handed to onUpdateData, the prompt is cleared, and finally
\* isProcessing is reset
TransformationApplied(i, code) ==
    /\ handleDataUpdateWith(Transform(code, bar.requests[i].data), bar.requests[i].columns)
    /\ bar' = [prompt |-> "", isProcessing |-> FALSE, requests |-> Without(bar.requests, i)]
    /\ UNCHANGED panel

TransformationResponse ==
    \E i \in 1..Len(bar.requests), code \in TransformationCodes :
        TransformationApplied(i, code)

\* handleExecute after its await when the request or the code fails:
\* onError, and finally isProcessing is reset
TransformationFailure ==
    \E i \in 1..Len(bar.requests) :
        /\ bar' = [bar EXCEPT !.isProcessing = FALSE, !.requests = Without(@, i)]
        /\ UNCHANGED <<data, columns, lenientDates, resultVars, csvText, selectedColumn,
                       isDetailsOpen, panel>>

Next ==
    \/ AppendRow(RowUniverse, MaxRows)
    \/ ClearRows
    \/ GenerateGlobalAnalysis(TRUE)
    \/ CalculateColumnStats(ColumnNames)

\* No text of RowUniverse holds a '-' or a '/': no column is a Date column
\* and the outcome of the date parser never reaches a result, so one runtime
\* stands for both.
Spec == Init({FALSE}) /\ [][Next]_vars

NextColumn ==
    \/ AppendRow(ColumnRowUniverse, MaxColumnRows)
    \/ ClearRows
    \/ CellEdit(EditTexts)
    \/ GenerateGlobalAnalysis(FALSE)

SpecColumn == Init(BOOLEAN) /\ [][NextColumn]_vars

NextNumeric ==
    \/ GenerateGlobalAnalysis(FALSE)
    \/ CalculateColumnStats({"a"})
    \/ ApplyStatsUtilities

\* No cell of NumericTables is a text: the date parser is never consulted.
SpecNumeric == InitNumeric /\ [][NextNumeric]_vars

\* the effect of a render runs before the next event is handled
NextApp ==
    \/ PanelEffect
    \/ ~EffectPending /\ Import(AppTexts)
    \/ ~EffectPending /\ CellEdit(EditTexts)
    \/ ~EffectPending /\ ColumnClick
    \/ ~EffectPending /\ CloseDetails
    \/ ~EffectPending /\ InsightResponse
    \/ ~EffectPending /\ SetPrompt(PromptTexts)
    \/ ~EffectPending /\ ClickSend
    \/ ~EffectPending /\ PressEnter
    \/ ~EffectPending /\ TransformationResponse
    \/ ~EffectPending /\ TransformationFailure

\* The App in its grid view, with one imported file; no text of its tables
\* is a date.
SpecApp == Init({FALSE}) /\ [][NextApp]_vars

NextCSV == FileUpload

SpecCSV == InitCSV /\ [][NextCSV]_vars

\* ------------------------------------------------------------ properties

\* the cell a row holds under a column, read off the row's entries
CellOf(row, c) ==
    IF \E i \in 1..Len(row) : row[i].k = c
    THEN (CHOOSE e \in Range(row) : e.k = c).v
    ELSE Undef

\* the rows whose cell under c is not null, not undefined and not ''
PresentRows(c) ==
    {i \in 1..Len(data) : CellOf(data[i], c) \notin {Null, Undef, Str("")}}

NumberRows(c) == {i \in PresentRows(c) : CellOf(data[i], c).t = "number"}
TextRows(c) == {i \in PresentRows(c) : CellOf(data[i], c).t = "string"}
DateRows(c) ==
    {i \in TextRows(c) : /\ DateParse(CellOf(data[i], c).s).valid
                         /\ IncludesDashOrSlash(CellOf(data[i], c).s)}

ExpectedType(c) ==
    LET numCount == Cardinality(NumberRows(c))
        strCount == Cardinality(TextRows(c))
        dateCount == Cardinality(DateRows(c))
        nonMissingCount == Cardinality(PresentRows(c))
    IN  IF numCount > 0 /\ strCount = 0 THEN "Numeric"
        ELSE IF 10 * dateCount > 8 * nonMissingCount THEN "Date"
        ELSE IF numCount > 0 /\ strCount > 0 THEN "Mixed"
        ELSE "Categorical"

HasIssue(profile, issue) == \E i \in 1..Len(profile.issues) : profile.issues[i] = issue

\* C1: every column of a report has the type given by the precedence
\* Numeric (numbers, no text), Date (more than 80% of the non-missing values
\* are date texts), Mixed (numbers and text), Categorical; a Date column
\* carries 'Invalid Date Formats Detected' exactly when some non-missing
\* value is no date text, a column carries 'Mixed Data Types (Numbers &
\* Text)' exactly when it is Mixed, and a column without non-missing values
\* is Categorical with no issues and no statistics.
C1_TypePrecedence ==
    report # None =>
        \A c \in DOMAIN report.columns :
            LET p == report.columns[c]
            IN  /\ p.type = ExpectedType(c)
                /\ HasIssue(p, "Invalid Date Formats Detected")
                     <=> (ExpectedType(c) = "Date"
                          /\ Cardinality(DateRows(c)) < Cardinality(PresentRows(c)))
                /\ HasIssue(p, "Mixed Data Types (Numbers & Text)")
                     <=> ExpectedType(c) = "Mixed"
                /\ PresentRows(c) = {} =>
                     /\ p.type = "Categorical"
                     /\ p.issues = <<>>
                     /\ p.numericStats = None
                     /\ p.dateStats = None

\* C1 witness: a reported Date column with an invalid-format issue (five
\* date texts and one other value), after Numeric, Mixed and Categorical
\* were passed over
C1_Witness ==
    /\ report # None
    /\ "a" \in DOMAIN report.columns
    /\ report.columns["a"].type = "Date"
    /\ HasIssue(report.columns["a"], "Invalid Date Formats Detected")
    /\ NumberRows("a") # {}

\* C2: in a report and in column statistics alike, the missing count of a
\* column plus the number of its non-missing cells is the number of rows,
\* also for a column that rows do not contain; so 0 <= missing <= rows.
C2_MissingPlusPresent ==
    /\ report # None =>
         \A c \in DOMAIN report.columns :
            /\ report.columns[c].missing + Cardinality(PresentRows(c)) = Len(data)
            /\ report.columns[c].missing \in 0..Len(data)
    /\ colStats # None =>
         /\ colStats.stats.missing + Cardinality(PresentRows(colStats.column)) = Len(data)
         /\ colStats.stats.missing \in 0..Len(data)

\* C2 witness: both functions have run on a table in which column b is held
\* by some rows and lacked by others, and column a has an empty-string cell
C2_Witness ==
    /\ report # None
    /\ colStats # None
    /\ colStats.column = "b"
    /\ "b" \in DOMAIN report.columns
    /\ \E i, j, k \in 1..Len(data) :
          /\ "b" \in Keys(data[i])
          /\ "b" \notin Keys(data[j])
          /\ CellOf(data[k], "a") = Str("")

\* what a row holds, whatever the order its keys were inserted in
RowContent(row) == {<<row[i].k, row[i].v>> : i \in 1..Len(row)}

\* the rows that hold exactly what some earlier row holds
LaterOccurrences ==
    {j \in 1..Len(data) : \E i \in 1..(j - 1) : RowContent(data[i]) = RowContent(data[j])}

\* C3: duplicateRows is the number of rows that match an earlier row, that
\* is the number of rows minus the number of distinct row contents.
C3_DuplicateCount ==
    report # None =>
        /\ report.duplicateRows = Cardinality(LaterOccurrences)
        /\ report.duplicateRows
             = Len(data) - Cardinality({RowContent(data[i]) : i \in 1..Len(data)})

\* C4: a row that holds the same keys with the same values as an earlier
\* row, in whatever insertion order, is counted in duplicateRows.
C4_KeyOrderIndependent ==
    report # None => report.duplicateRows >= Cardinality(LaterOccurrences)

\* C5: a row is counted only if an earlier row has exactly its keys and,
\* under every key, the identical value, of the same type.
C5_OnlyIdenticalRows ==
    report # None => report.duplicateRows <= Cardinality(LaterOccurrences)

Permute(rows, p) == [i \in 1..Len(rows) |-> rows[p[i]]]

\* C6: the duplicate scan of every permutation of the rows counts the
\* duplicateRows of the table's report.
C6_RowOrderIndependent ==
    report # None =>
        \A p \in Permutations(1..Len(data)) :
            CountDuplicates(Permute(data, p)) = report.duplicateRows

\* C6 witness: a report with a duplicate whose first occurrence is not
\* adjacent to it, so that a permutation changes which row is seen first
C6_Witness ==
    /\ report # None
    /\ Len(data) = 3
    /\ report.duplicateRows = 1
    /\ data[1] = data[3]
    /\ data[1] # data[2]

RECURSIVE NumbersUpTo(_, _)
NumbersUpTo(c, n) ==
    IF n = 0 THEN <<>>
    ELSE IF n \in NumberRows(c)
         THEN Append(NumbersUpTo(c, n - 1), CellOf(data[n], c).n)
         ELSE NumbersUpTo(c, n - 1)

\* C10: a column's profile has numericStats exactly when its type is
\* Numeric or Mixed, they are the statistics of the column's numeric
\* non-missing values alone, and dateStats is present only on a Date column.
C10_StatsByType ==
    report # None =>
        \A c \in DOMAIN report.columns :
            LET p == report.columns[c]
            IN  /\ p.numericStats # None <=> p.type \in {"Numeric", "Mixed"}
                /\ p.numericStats # None =>
                     /\ p.numericStats = NumericStatsOf(NumbersUpTo(c, Len(data)))
                     /\ p.numericStats.mean.num * Cardinality(NumberRows(c))
                          = p.numericStats.mean.den * Sum(NumbersUpTo(c, Len(data)))
                /\ p.dateStats # None => p.type = "Date"

\* C10 witness: a reported Mixed column with numericStats next to a text
C10_Witness ==
    /\ report # None
    /\ "a" \in DOMAIN report.columns
    /\ report.columns["a"].type = "Mixed"
    /\ report.columns["a"].numericStats # None
    /\ Cardinality(NumberRows("a")) >= 2
    /\ TextRows("a") # {}

\* v is the element at 0-based index k of the ascending arrangement of values
AtRank(values, k, v) ==
    /\ v \in Range(values)
    /\ Cardinality({i \in 1..Len(values) : values[i] < v}) <= k
    /\ k < Cardinality({i \in 1..Len(values) : values[i] <= v})

\* C11: the quartiles of a Numeric column of n >= 1 numbers are q1 = the
\* element at index floor(0.25 n) and q3 = the element at index
\* floor(0.75 n) of the ascending order, q2 = the median = the middle
\* element for odd n and the average of the two middle elements for even n;
\* the median of an empty list is 0.
C11_Quartiles ==
    /\ (colStats # None /\ colStats.stats.type = "Numeric") =>
         LET values == NumbersUpTo(colStats.column, Len(data))
             n == Len(values)
             q == colStats.stats.quartiles
         IN  /\ n >= 1
             /\ AtRank(values, n \div 4, q.q1)
             /\ AtRank(values, (3 * n) \div 4, q.q3)
             /\ q.q2 = colStats.stats.median
             /\ n % 2 = 1 => /\ q.q2.den = 1
                             /\ AtRank(values, (n - 1) \div 2, q.q2.num)
             /\ n % 2 = 0 => \E lo, hi \in Range(values) :
                                /\ AtRank(values, n \div 2 - 1, lo)
                                /\ AtRank(values, n \div 2, hi)
                                /\ 2 * q.q2.num = (lo + hi) * q.q2.den
    /\ (utility # None /\ utility.values = <<>>) =>
         (utility.median.num = 0 /\ utility.median.den = 1)

\* C11 witness: the quartiles of four distinct numbers out of order, where
\* q1, the averaged median and q3 all differ
C11_Witness ==
    /\ colStats # None
    /\ colStats.stats.type = "Numeric"
    /\ NumbersUpTo("a", Len(data)) = <<2, -1, 1, 0>>
    /\ colStats.stats.quartiles.q1 = 0
    /\ colStats.stats.quartiles.q2 = Frac(1, 2)
    /\ colStats.stats.quartiles.q3 = 2

\* C12: the quartiles calculateColumnStats returns for a Numeric column with
\* at least two non-missing values satisfy q1 <= q2 <= q3, negative numbers,
\* zeros and repeated values included.
C12_QuartilesOrdered ==
    (/\ colStats # None
     /\ colStats.stats.type = "Numeric"
     /\ Cardinality(PresentRows(colStats.column)) >= 2) =>
        LET q == colStats.stats.quartiles
        IN  /\ q.q2.den > 0
            /\ q.q1 * q.q2.den <= q.q2.num
            /\ q.q2.num <= q.q3 * q.q2.den

\* C12 witness: quartiles of a column holding a negative number twice, a
\* zero and a missing cell: q1 = q2 = -1 < q3 = 0
C12_Witness ==
    /\ colStats # None
    /\ colStats.stats.type = "Numeric"
    /\ Cardinality({i \in NumberRows("a") : CellOf(data[i], "a") = Num(-1)}) = 2
    /\ \E i \in NumberRows("a") : CellOf(data[i], "a") = Num(0)
    /\ \E i \in 1..Len(data) : CellOf(data[i], "a") = Null
    /\ colStats.stats.quartiles.q1 = -1
    /\ colStats.stats.quartiles.q2 = Frac(-1, 1)
    /\ colStats.stats.quartiles.q3 = 0

\* the number of values strictly outside [q1 - 1.5 IQR, q3 + 1.5 IQR] for the
\* nearest-rank quartiles q1 and q3 of a non-empty list
StrictOutliers(values) ==
    LET n == Len(values)
        q1 == CHOOSE v \in Range(values) : AtRank(values, n \div 4, v)
        q3 == CHOOSE v \in Range(values) : AtRank(values, (3 * n) \div 4, v)
    IN  Cardinality({i \in 1..n : \/ 2 * values[i] < 5 * q1 - 3 * q3
                                  \/ 2 * values[i] > 5 * q3 - 3 * q1})

\* C13: the outlier count of a column's numbers is the number of them
\* strictly below q1 - 1.5 IQR or strictly above q3 + 1.5 IQR (nearest-rank
\* q1, q3; a value on a bound is no outlier); the column carries the issue
\* 'Potential Outliers (<count>)' exactly when the count is positive; the
\* column 1, 2, 3, 4, 5, 100 has count 1 and 'Potential Outliers (1)'.
C13_Outliers ==
    report # None =>
        \A c \in DOMAIN report.columns :
            LET p == report.columns[c]
                values == NumbersUpTo(c, Len(data))
            IN  /\ p.numericStats # None <=> values # <<>>
                /\ values = <<>> => p.issues = <<>>
                /\ values # <<>> =>
                     LET count == StrictOutliers(values)
                     IN  /\ p.numericStats.outliers = count
                         /\ count > 0 =>
                              p.issues = <<"Potential Outliers (" \o ToString(count) \o ")">>
                         /\ count = 0 => p.issues = <<>>
                /\ values = OutlierExample =>
                     /\ p.numericStats.outliers = 1
                     /\ p.issues = <<"Potential Outliers (1)">>

\* C13 witness: the report on the column 1, 2, 3, 4, 5, 100
C13_Witness ==
    /\ report # None
    /\ NumbersUpTo("a", Len(data)) = OutlierExample
    /\ report.columns["a"].numericStats.outliers = 1
    /\ HasIssue(report.columns["a"], "Potential Outliers (1)")

\* C14 as stated: for the column 1, 2, 3, 4, 5, 100 the quartiles used for
\* outlier detection are q1 = 2 and q3 = 4.
C14_ExampleQuartilesAsStated ==
    (utility # None /\ utility.values = OutlierExample) =>
        (utility.q1 = 2 /\ utility.q3 = 4)

\* C14: for the column 1, 2, 3, 4, 5, 100 the quartiles used for outlier
\* detection are q1 = 2 (index 1 of the ascending order) and q3 = 5
\* (index 4).
C14_ExampleQuartiles ==
    (utility # None /\ utility.values = OutlierExample) =>
        (utility.q1 = 2 /\ utility.q3 = 5 /\ utility.outliers = 1)

\* C14 witness: the outlier quartiles computed for the example column
C14_Witness ==
    /\ utility # None
    /\ utility.values = OutlierExample
    /\ utility.q3 = 5

\* how often v occurs in values
Frequency(values, v) == Cardinality({i \in 1..Len(values) : values[i] = v})

\* the values that occur most often
MostFrequent(values) ==
    {m \in Range(values) : \A v \in Range(values) : Frequency(values, v) <= Frequency(values, m)}

\* C15: the mode reported for a non-empty list of numbers is a list of one
\* to three pairwise distinct values, each of the maximum frequency; when at
\* most three values have the maximum frequency the list holds all of them
\* (1, 1, 2, 2, 3 gives [1, 2]); the mode of an empty list is the empty list.
C15_Mode ==
    /\ report # None =>
         \A c \in DOMAIN report.columns :
            report.columns[c].numericStats # None =>
                LET values == NumbersUpTo(c, Len(data))
                    mode == report.columns[c].numericStats.mode
                IN  /\ Len(mode) \in 1..3
                    /\ \A i, j \in 1..Len(mode) : mode[i] = mode[j] => i = j
                    /\ Range(mode) \subseteq MostFrequent(values)
                    /\ Cardinality(MostFrequent(values)) <= 3 =>
                         Range(mode) = MostFrequent(values)
                    /\ values = ModeExample => mode = <<1, 2>>
    /\ (utility # None /\ utility.values = <<>>) => utility.mode = <<>>

\* C15 witness: the report on the column 1, 1, 2, 2, 3
C15_Witness ==
    /\ report # None
    /\ NumbersUpTo("a", Len(data)) = ModeExample
    /\ report.columns["a"].numericStats.mode = <<1, 2>>

\* the most frequent values in the order of their first occurrence, at most
\* three of them
RECURSIVE FirstEncountered(_, _)
FirstEncountered(values, n) ==
    IF n = 0 THEN <<>>
    ELSE LET init == FirstEncountered(values, n - 1)
         IN  IF /\ values[n] \in MostFrequent(values)
                /\ values[n] \notin Range(init)
                /\ Len(init) < 3
             THEN Append(init, values[n])
             ELSE init

\* C16: values that tie for the maximum frequency are listed in the order
\* in which each first appears in the column, and of more than three the
\* first three encountered are kept.
C16_FirstEncounteredOrder ==
    report # None =>
        \A c \in DOMAIN report.columns :
            report.columns[c].numericStats # None =>
                report.columns[c].numericStats.mode
                    = FirstEncountered(NumbersUpTo(c, Len(data)), Cardinality(NumberRows(c)))

\* the distinct non-missing cells of column c, a number apart from a text
DistinctPresent(c) == {CellOf(data[i], c) : i \in PresentRows(c)}

MissingRows(c) == (1..Len(data)) \ PresentRows(c)

\* the kinds of missing cell column c holds: null, undefined (an absent key
\* included), the empty text
MissingKinds(c) == {CellOf(data[i], c) : i \in MissingRows(c)}

\* the unique count with one bucket for all missing cells
SingleBucketCount(c) ==
    Cardinality(DistinctPresent(c)) + (IF MissingRows(c) # {} THEN 1 ELSE 0)

\* the unique count with one bucket for each kind of missing cell
BucketPerKindCount(c) == Cardinality(DistinctPresent(c)) + Cardinality(MissingKinds(c))

\* C17 as stated: unique is the number of distinct non-missing values plus
\* one if the column has a missing cell; null, undefined and '' together
\* contribute exactly 1.
C17_SingleMissingBucket ==
    /\ report # None =>
         \A c \in DOMAIN report.columns : report.columns[c].unique = SingleBucketCount(c)
    /\ colStats # None => colStats.stats.unique = SingleBucketCount(colStats.column)

\* C17: unique is the number of distinct non-missing values (a number and
\* the text of its digits being distinct) plus one for each kind of missing
\* cell the column holds: null, undefined (an absent key included) and ''
\* are counted apart, so missing cells contribute between 0 and 3.
C17_UniqueCount ==
    /\ report # None =>
         \A c \in DOMAIN report.columns :
            /\ report.columns[c].unique = BucketPerKindCount(c)
            /\ report.columns[c].unique - Cardinality(DistinctPresent(c)) \in 0..3
    /\ colStats # None =>
         /\ colStats.stats.unique = BucketPerKindCount(colStats.column)
         /\ colStats.stats.unique - Cardinality(DistinctPresent(colStats.column)) \in 0..3

\* C17 witness: a column of a null, an absent key and an empty text, whose
\* unique count is 3 in both results
C17_Witness ==
    /\ report # None
    /\ colStats # None
    /\ colStats.column = "a"
    /\ "a" \in DOMAIN report.columns
    /\ PresentRows("a") = {}
    /\ \E i \in 1..Len(data) : "a" \notin Keys(data[i])
    /\ report.columns["a"].unique = 3
    /\ colStats.stats.unique = 3

\* C18: calculateColumnStats and generateGlobalAnalysis agree on a column:
\* the same missing count, the same unique count, Numeric in the one exactly
\* when Numeric in the other, and then the same mean, median, min and max.
C18_FlowsAgree ==
    (/\ report # None
     /\ colStats # None
     /\ colStats.column \in DOMAIN report.columns) =>
        LET p == report.columns[colStats.column]
            st == colStats.stats
        IN  /\ p.missing = st.missing
            /\ p.unique = st.unique
            /\ p.type = "Numeric" <=> st.type = "Numeric"
            /\ st.type = "Numeric" =>
                 /\ p.numericStats # None
                 /\ p.numericStats.mean = st.mean
                 /\ p.numericStats.median = st.median
                 /\ p.numericStats.min = st.min
                 /\ p.numericStats.max = st.max

\* C18 witness: both results for a Numeric column of two different numbers
\* and a missing cell
C18_Witness ==
    /\ report # None
    /\ colStats # None
    /\ colStats.column = "a"
    /\ "a" \in DOMAIN report.columns
    /\ colStats.stats.type = "Numeric"
    /\ report.columns["a"].type = "Numeric"
    /\ colStats.stats.missing = 1
    /\ colStats.stats.min < colStats.stats.max

\* the table without the rows whose cell under c is missing
Stripped(c) ==
    LET Present(row) == CellOf(row, c) \notin {Null, Undef, Str("")}
    IN  SelectSeq(data, Present)

\* the table with every missing cell under c replaced by the missing value m
WithMissingAs(c, m) ==
    [i \in 1..Len(data) |-> IF i \in PresentRows(c) THEN data[i] ELSE <<Entry(c, m)>>]

\* the table with a missing value m under c put before and after the rows
Padded(c, m) == <<(<<Entry(c, m)>>)>> \o data \o <<(<<Entry(c, m)>>)>>

\* C19: the type of a column depends on its non-missing values only: the
\* column keeps its reported type when its missing cells are removed, when
\* they are of another kind (null, undefined, ''), and when further
\* missing cells are added.
C19_TypeIgnoresMissing ==
    report # None =>
        \A c \in DOMAIN report.columns :
            /\ ColumnType(Stripped(c), c) = report.columns[c].type
            /\ \A m \in {Null, Undef, Str("")} :
                 /\ ColumnType(WithMissingAs(c, m), c) = report.columns[c].type
                 /\ ColumnType(Padded(c, m), c) = report.columns[c].type

\* C19 witness: a reported Date column whose date texts are not more than
\* 80% of all its cells, only of its non-missing ones
C19_Witness ==
    /\ report # None
    /\ "a" \in DOMAIN report.columns
    /\ report.columns["a"].type = "Date"
    /\ MissingRows("a") # {}
    /\ 5 * Cardinality(DateRows("a")) <= 4 * Len(data)

\* the rows whose non-missing cell under c converts to a valid date
ConvertingRows(c) ==
    {i \in PresentRows(c) : DateParse(StringOf(CellOf(data[i], c))).valid}

ConvertedDays(c) == {DateParse(StringOf(CellOf(data[i], c))).day : i \in ConvertingRows(c)}

\* the day an ISO date text names
DayOfISO(s) == CHOOSE d \in {11323, 11354, 11443, 19358, 19389} : ISODate(d) = s

\* C20: for a Date column, dateStats.invalidCount is the non-missing count
\* minus the number of non-missing values that convert to a valid date, min
\* and max are the earliest and the latest converted date (min <= max), and
\* dateStats is left out exactly when no non-missing value converts (which
\* the date block does for the values of any column it is applied to).
C20_DateStats ==
    report # None =>
        \A c \in DOMAIN report.columns :
            LET p == report.columns[c]
            IN  /\ p.type = "Date" =>
                     /\ p.dateStats = None <=> ConvertingRows(c) = {}
                     /\ p.dateStats # None =>
                          /\ p.dateStats.invalidCount
                               = Cardinality(PresentRows(c)) - Cardinality(ConvertingRows(c))
                          /\ DayOfISO(p.dateStats.min) \in ConvertedDays(c)
                          /\ DayOfISO(p.dateStats.max) \in ConvertedDays(c)
                          /\ \A d \in ConvertedDays(c) :
                               DayOfISO(p.dateStats.min) <= d /\ d <= DayOfISO(p.dateStats.max)
                          /\ DayOfISO(p.dateStats.min) <= DayOfISO(p.dateStats.max)
                /\ DateStatsOf(NonNull(ColumnValues(data, c))) = None <=> ConvertingRows(c) = {}

\* C20 witness: a Date column of five date texts and a number that the
\* runtime converts to an earlier date: no invalid value, min before max
C20_Witness ==
    /\ report # None
    /\ "a" \in DOMAIN report.columns
    /\ report.columns["a"].type = "Date"
    /\ NumberRows("a") # {}
    /\ report.columns["a"].dateStats # None
    /\ report.columns["a"].dateStats.invalidCount = 0
    /\ report.columns["a"].dateStats.min = "2001-01-01"
    /\ report.columns["a"].dateStats.max = "2023-01-01"

\* C23: a Date column carries the issue 'Invalid Date Formats Detected'
\* exactly when its dateStats.invalidCount is greater than 0.
C23_IssueMatchesInvalidCount ==
    report # None =>
        \A c \in DOMAIN report.columns :
            LET p == report.columns[c]
            IN  p.type = "Date" =>
                    (HasIssue(p, "Invalid Date Formats Detected")
                        <=> (p.dateStats # None /\ p.dateStats.invalidCount > 0))

\* the data lines of the chosen file: the lines after the header, trimmed,
\* blank ones left out
DataLines ==
    LET lines == Split(Trim(csvText), Newline)
        NotBlank(line) == Trim(line) # <<>>
        rest == SelectSeq(SubSeq(lines, 2, Len(lines)), NotBlank)
    IN  [i \in 1..Len(rest) |-> Trim(rest[i])]

\* the cell a field of a line stands for: a number when the field is
\* non-empty and all digits, the field's text otherwise
ExpectedCell(field) ==
    IF field # <<>> /\ \A i \in 1..Len(field) : field[i] = "1"
    THEN Num(Decimal(field))
    ELSE Str(Text(field))

\* C22: after an import every data line has become a row with exactly one
\* cell per header column; in a line without quotes the field at position j
\* is stored under the header at position j, as a number exactly when it is
\* non-empty and numeric-looking and as its text otherwise, and a line with
\* fewer fields than headers is padded with empty text.
C22_ImportContract ==
    columns # <<>> =>
        /\ columns = <<"a", "b", "c">>
        /\ Len(data) = Len(DataLines)
        /\ \A i \in 1..Len(data) :
             /\ Len(data[i]) = Len(columns)
             /\ Keys(data[i]) = Range(columns)
             /\ (\A p \in 1..Len(DataLines[i]) : DataLines[i][p] # Quote) =>
                  LET fields == Split(DataLines[i], Comma)
                  IN  \A j \in 1..Len(columns) :
                          CellOf(data[i], columns[j])
                            = IF j <= Len(fields)
                              THEN ExpectedCell(Trim(fields[j]))
                              ELSE Str("")

\* C21: while the details panel is shown and its effect has run for the
\* current table and selected column, the stats it displays are
\* calculateColumnStats of the current table and the selected column.
C21_StatsOfCurrentTable ==
    (panel.mounted /\ panel.deps = PanelDeps /\ panel.stats # None) =>
        panel.stats = calculateColumnStats(data, selectedColumn.column)

\* C24: when the result of a transformation is applied, the table becomes
\* the transformation of the table as it stands at that moment, so a cell
\* edit or an import committed since the request was issued is kept.
C24_NoLostUpdate ==
    [][\A i \in 1..Len(bar.requests), code \in TransformationCodes :
           TransformationApplied(i, code) => data' = Transform(code, data)]_vars

\* C25: at most one transformation request is in flight at any time.
C25_OneRequestInFlight == Len(bar.requests) <= 1

\* C26: whenever the details panel is not loading, its latest insight
\* request is no longer pending, and the insight it shows, if any, is the
\* response to that latest request.
C26_LatestInsight ==
    (panel.mounted /\ ~panel.loadingInsight) =>
        /\ \A i \in 1..Len(panel.pending) : panel.pending[i] # panel.requested
        /\ panel.insight # None => panel.insight = panel.requested

\* C27: whenever the details panel is open, selectedColumn is non-null and
\* is the name of a column of the current table.
C27_SelectedColumnExists ==
    isDetailsOpen =>
        /\ selectedColumn # None
        /\ selectedColumn.column \in Range(columns)

====
